---- MODULE Spec2Model ----
(***************************************************************************)
(* The tool-using agent of the notebooks 09-BingChatClone and 08-SQLDB_QA: *)
(* an AgentExecutor built over the tools Searcher and WebFetcher, run      *)
(* through its blocking surface (agent_executor.invoke inside try/except)  *)
(* and through its streaming surface (async for chunk in                   *)
(* agent_executor.astream).  The executor's loop is the one the notebooks  *)
(* configure: no handle_parsing_errors, no handle_tool_error on either     *)
(* tool, no max_iterations (the library's own cap applies), early stopping *)
(* by the default "force" method, return_intermediate_steps=True.          *)
(***************************************************************************)
EXTENDS Integers, Sequences, FiniteSets, TLC

\* max_iterations of the executor.  The notebooks pass none, so the
\* executor's default cap applies; the model is parametric in it.
MaxIterations == 2

\* The most Actions the model returns in one turn.
MaxActions == 2

\* Mutant of ToolList: web_fetch_tool registered under the Searcher's name.
ToolListSameName ==
    <<[name |-> "Searcher", func |-> "MyBingSearch"],
      [name |-> "Searcher", func |-> "fetch_web_page"]>>

\* tools = [MyBingSearch(k=5), web_fetch_tool]: the list handed to the agent
\* and to the executor, each tool with the name it declares.
ToolList ==
    <<[name |-> "Searcher", func |-> "MyBingSearch"],
      [name |-> "WebFetcher", func |-> "fetch_web_page"]>>

\* The registry, by tool name: the keys of the executor's name-to-tool map.
tools == {ToolList[k].name : k \in DOMAIN ToolList}

\* The tool names a model response may carry: the registered ones and one
\* name that is in no registry.
ToolNames == tools \cup {"Calculator"}

VARIABLES
    surface,             \* "invoke" or "astream": the cell that runs the agent
    state,               \* position of the executor's loop
    iterations,          \* turns completed
    intermediate_steps,  \* the executor's list of (action, observation)
    actions,             \* the Actions of the current turn, in issuance order
    results,             \* per Action of the turn: pending, or its outcome
    completed,           \* ids of the turn's Actions in completion order
    yielded,             \* step chunks of the turn handed to the consumer
    chunks,              \* chunks the astream consumer loop has received
    response,            \* what the calling cell holds at the end
    error,               \* the exception that ended the run, if any
    issued,              \* number of Actions issued so far (ids 1..issued)
    runs,                \* the runs of one agent_executor that overlap in time
    loader,              \* the cell that loads the CSV file into the SQL table
    ddl,                 \* the construction of the CREATE TABLE statement
    searcher             \* a call of the Searcher tool by either entry point

\* The variables of the single run.
runVars == <<surface, state, iterations, intermediate_steps, actions, results,
             completed, yielded, chunks, response, error, issued>>

vars == <<surface, state, iterations, intermediate_steps, actions, results,
          completed, yielded, chunks, response, error, issued, runs,
          loader, ddl, searcher>>

NoResponse == [kind |-> "none", output |-> "none", steps |-> <<>>]

\* Mutant of ReturnDict: the dict an executor built without
\* return_intermediate_steps returns.
ReturnDictOutputOnly(output, steps) ==
    [kind |-> "dict", output |-> output, steps |-> <<>>]

\* response = agent_executor.invoke(...) returned normally: a dict with
\* "output" and, by return_intermediate_steps=True, "intermediate_steps".
\* astream delivers the same dict as its last chunk.
ReturnDict(output, steps) == [kind |-> "dict", output |-> output, steps |-> steps]

\* except Exception as e: response = str(e).  The string is the exception's
\* message: it has no "output" key and carries no step.
StrOfException == [kind |-> "str", output |-> "none", steps |-> <<>>]

\* The astream cell has no try/except: the exception leaves the async for.
Raised == [kind |-> "raised", output |-> "none", steps |-> <<>>]

\* Mutant of OnException: the failure handed back as an output dict, the
\* way the iteration cap's stop is.
OnExceptionAsStopOutput(s) ==
    [kind |-> "dict", output |-> "stopped", steps |-> <<>>]

\* What the calling cell is left with when the executor raises.
OnException(s) == IF s = "invoke" THEN StrOfException ELSE Raised

Terminal == {"DONE", "FAILED"}

Init ==
    /\ surface \in {"invoke", "astream"}
    /\ state = "STARTED"
    /\ iterations = 0
    /\ intermediate_steps = <<>>
    /\ actions = <<>>
    /\ results = <<>>
    /\ completed = <<>>
    /\ yielded = 0
    /\ chunks = <<>>
    /\ response = NoResponse
    /\ error = "none"
    /\ issued = 0
    /\ runs = <<>>
    /\ loader = <<>>
    /\ ddl = <<>>
    /\ searcher = <<>>

\* Mutant of Start: the run is entered again after it ended, on the state the
\* ended run left behind.
StartOnEndedRun ==
    /\ state \in {"STARTED", "DONE", "FAILED"}
    /\ state' = "AWAITING_MODEL"
    /\ UNCHANGED <<loader, ddl, searcher, runs, surface, iterations, intermediate_steps, actions, results,
                   completed, yielded, chunks, response, error, issued>>

\* agent_executor.invoke(...) / agent_executor.astream(...) is entered: the
\* loop starts with an empty list of steps.
Start ==
    /\ state = "STARTED"
    /\ state' = "AWAITING_MODEL"
    /\ UNCHANGED <<loader, ddl, searcher, runs, surface, iterations, intermediate_steps, actions, results,
                   completed, yielded, chunks, response, error, issued>>

\* The responses that carry Actions: 1..MaxActions tool names, in the order
\* the model issued them.
ActionSeqs == UNION {[1..n -> ToolNames] : n \in 1..MaxActions}

\* Mutant of ShouldContinue: the cap read one turn late (<= for <).
ShouldContinueOffByOne(n) == n <= MaxIterations

\* while self._should_continue(iterations, time_elapsed): the loop goes on
\* while the cap is not reached (no max_execution_time is configured).
ShouldContinue(n) == n < MaxIterations

\* Mutant of ToolOutcomes: a name missing from the registry raises (a bare
\* name_to_tool_map[name] lookup) instead of getting the "invalid tool"
\* observation.
ToolOutcomesLookupRaises(tool) == IF tool \in tools THEN {"ok", "raised"} ELSE {"raised"}

\* What running one Action can produce.  A registered tool returns its
\* result or raises: MyBingSearch._run/_arun and fetch_web_page catch
\* nothing, and neither tool sets handle_tool_error, so the exception leaves
\* tool.run.  (requests.get does not raise on a 4xx/5xx status:
\* fetch_web_page then returns the error page's text, an "ok" result.)  A
\* name that is not in the registry gets the executor's "is not a valid
\* tool" message as its observation, and nothing is raised.
ToolOutcomes(tool) == IF tool \in tools THEN {"ok", "raised"} ELSE {"invalid"}

\* Mutant of ActionChunks: only the first Action of a turn is announced.
ActionChunksFirstOnly(acts) == <<[kind |-> "actions", id |-> acts[1].id]>>

\* The chunks astream yields for the Actions of a turn: one
\* {"actions": [action]} chunk per Action, in issuance order, before any
\* tool runs.
ActionChunks(acts) == [i \in 1..Len(acts) |-> [kind |-> "actions", id |-> acts[i].id]]

\* Mutant of StepChunk: the chunk of a stream that does not yield actions,
\* which reports each step under the key "intermediate_step".
StepChunkIntermediate(act) == [kind |-> "intermediate_step", id |-> act.id]

\* The {"steps": [step]} chunk of one Action.
StepChunk(act) == [kind |-> "steps", id |-> act.id]

\* The {"output": ...} chunk that ends a stream.
OutputChunk == [kind |-> "output", id |-> 0]

\* The position, in the turn, of the Action with this id.
IndexOf(acts, id) == CHOOSE i \in 1..Len(acts) : acts[i].id = id

\* Mutant of GatherResults: the results taken as they complete
\* (asyncio.as_completed for asyncio.gather).
GatherResultsAsCompleted(acts, res, done) ==
    [k \in 1..Len(done) |-> IndexOf(acts, done[k])]

\* The result list of the turn's tool calls, as the executor reads it once
\* they are done: asyncio.gather returns the results in the order of the
\* awaitables it was given (the blocking surface runs them one by one), so
\* the order is the Actions' order whatever the completion order was.
GatherResults(acts, res, done) == [i \in 1..Len(acts) |-> i]

\* Mutant of GatherDone: the wait ends with the first call that is done
\* (asyncio.wait(..., return_when=FIRST_COMPLETED)).
GatherDoneFirstCompleted(res) == \E i \in DOMAIN res : res[i] # "pending"

\* Mutant of GatherDone: the tool calls are started and not awaited.
GatherDoneNotAwaited(res) == TRUE

\* The turn's tool calls are all done: gather waits for every awaitable.
GatherDone(res) == \A i \in DOMAIN res : res[i] # "pending"

\* Mutant of ConsumeNextStep: the steps of Actions whose tool is not
\* registered are left out.
ConsumeNextStepRegisteredOnly(acts, res, done) ==
    SelectSeq([k \in 1..Len(acts) |->
                  [id |-> acts[k].id, tool |-> acts[k].tool, observation |-> res[k]]],
              LAMBDA s : s.tool \in tools)

\* _consume_next_step: the (action, observation) pairs of the turn.
ConsumeNextStep(acts, res, done) ==
    LET order == GatherResults(acts, res, done)
    IN  [k \in 1..Len(order) |->
            [id          |-> acts[order[k]].id,
             tool        |-> acts[order[k]].tool,
             observation |-> res[order[k]]]]

\* agent.plan returned Actions: each is yielded to the stream consumer, then
\* the tools are started.
ModelActions(names) ==
    /\ state = "AWAITING_MODEL"
    /\ actions' = [i \in 1..Len(names) |-> [id |-> issued + i, tool |-> names[i]]]
    /\ results' = [i \in 1..Len(names) |-> "pending"]
    /\ completed' = <<>>
    /\ yielded' = 0
    /\ issued' = issued + Len(names)
    /\ chunks' = IF surface = "astream" THEN chunks \o ActionChunks(actions') ELSE chunks
    /\ state' = "DISPATCHING_TOOLS"
    /\ UNCHANGED <<loader, ddl, searcher, runs, surface, iterations, intermediate_steps, response, error>>

\* Mutant of ModelFinish: the stream yields the final dict when the finish
\* is processed and once more when the iterator stops.
ModelFinishYieldedTwice ==
    /\ state = "AWAITING_MODEL"
    /\ state' = "DONE"
    /\ response' = ReturnDict("answer", intermediate_steps)
    /\ chunks' = IF surface = "astream"
                   THEN chunks \o <<OutputChunk, OutputChunk>> ELSE chunks
    /\ UNCHANGED <<loader, ddl, searcher, runs, surface, iterations, intermediate_steps, actions, results,
                   completed, yielded, error, issued>>

\* agent.plan returned an AgentFinish: the executor returns the output with
\* the intermediate steps.
ModelFinish ==
    /\ state = "AWAITING_MODEL"
    /\ state' = "DONE"
    /\ response' = ReturnDict("answer", intermediate_steps)
    /\ chunks' = IF surface = "astream" THEN Append(chunks, OutputChunk) ELSE chunks
    /\ UNCHANGED <<loader, ddl, searcher, runs, surface, iterations, intermediate_steps, actions, results,
                   completed, yielded, error, issued>>

\* Mutant of ModelParseError: the executor built with
\* handle_parsing_errors=True, which turns the parsing error into the
\* observation of an "_Exception" step and goes on.
ModelParseErrorHandled ==
    /\ state = "AWAITING_MODEL"
    /\ intermediate_steps' = Append(intermediate_steps,
           [id |-> issued + 1, tool |-> "_Exception", observation |-> "invalid"])
    /\ issued' = issued + 1
    /\ iterations' = iterations + 1
    /\ IF iterations' < MaxIterations
         THEN /\ state' = "AWAITING_MODEL"
              /\ UNCHANGED <<response, chunks>>
         ELSE /\ state' = "DONE"
              /\ response' = ReturnDict("stopped", intermediate_steps')
              /\ chunks' = IF surface = "astream"
                             THEN Append(chunks, OutputChunk) ELSE chunks
    /\ UNCHANGED <<loader, ddl, searcher, runs, surface, actions, results, completed, yielded, error>>

\* The model's message could not be parsed into Actions or an answer (the
\* tool-call arguments are not valid JSON): an OutputParserException.  The
\* executor is built without handle_parsing_errors, so it raises.
ModelParseError ==
    /\ state = "AWAITING_MODEL"
    /\ state' = "FAILED"
    /\ error' = "parse_error"
    /\ response' = OnException(surface)
    /\ UNCHANGED <<loader, ddl, searcher, runs, surface, iterations, intermediate_steps, actions, results,
                   completed, yielded, chunks, issued>>

\* Mutant of MayComplete: _arun calls bing.results on the event loop, so the
\* tool calls of a turn run one after the other under astream too.
MayCompleteBlocking(i) ==
    /\ i \in DOMAIN results
    /\ results[i] = "pending"
    /\ state = "DISPATCHING_TOOLS"
    /\ \A j \in 1..(i - 1) : results[j] # "pending"

\* May the i-th tool call of the turn finish now?  Under astream the calls
\* of a turn run concurrently and finish in any order, also after another
\* call's exception has ended the run (gather cancels nothing).  Under
\* invoke the calls run one after the other, and none runs after a raise.
MayComplete(i) ==
    /\ i \in DOMAIN results
    /\ results[i] = "pending"
    /\ IF surface = "astream"
         THEN state \in {"DISPATCHING_TOOLS", "FAILED"}
         ELSE /\ state = "DISPATCHING_TOOLS"
              /\ \A j \in 1..(i - 1) : results[j] # "pending"

\* One tool call of the turn finishes with outcome out.  An exception is
\* propagated at once to the executor, which lets it through.
ToolComplete(i, out) ==
    /\ MayComplete(i)
    /\ out \in ToolOutcomes(actions[i].tool)
    /\ results' = [results EXCEPT ![i] = out]
    /\ completed' = Append(completed, actions[i].id)
    /\ IF out = "raised" /\ state = "DISPATCHING_TOOLS"
         THEN /\ state' = "FAILED"
              /\ error' = "tool_error"
              /\ response' = OnException(surface)
         ELSE UNCHANGED <<state, error, response>>
    /\ UNCHANGED <<loader, ddl, searcher, runs, surface, iterations, intermediate_steps, actions, yielded,
                   chunks, issued>>

\* Under astream, once gather has returned, the turn's steps are yielded to
\* the consumer one chunk at a time.
YieldStep ==
    /\ surface = "astream"
    /\ state = "DISPATCHING_TOOLS"
    /\ GatherDone(results)
    /\ yielded < Len(actions)
    /\ LET order == GatherResults(actions, results, completed)
       IN  chunks' = Append(chunks, StepChunk(actions[order[yielded + 1]]))
    /\ yielded' = yielded + 1
    /\ UNCHANGED <<loader, ddl, searcher, runs, surface, state, iterations, intermediate_steps, actions,
                   results, completed, response, error, issued>>

\* Mutant of Extend: the list is assigned the turn's steps instead of being
\* extended by them.
ExtendByAssignment(steps, new) == new

\* intermediate_steps.extend(next_step_output).
Extend(steps, new) == steps \o new

\* Mutant of TurnComplete: the tools are registered with return_direct=True,
\* so a turn of one tool call ends the run with the observation as output.
TurnCompleteReturnDirect ==
    /\ state = "DISPATCHING_TOOLS"
    /\ GatherDone(results)
    /\ surface = "astream" => yielded = Len(actions)
    /\ intermediate_steps' =
           Extend(intermediate_steps, ConsumeNextStep(actions, results, completed))
    /\ iterations' = iterations + 1
    /\ IF Len(actions) = 1 \/ ~ShouldContinue(iterations')
         THEN /\ state' = "DONE"
              /\ response' = ReturnDict(IF Len(actions) = 1 THEN "answer"
                                                            ELSE "stopped",
                                        intermediate_steps')
              /\ chunks' = IF surface = "astream"
                             THEN Append(chunks, OutputChunk) ELSE chunks
         ELSE /\ state' = "AWAITING_MODEL"
              /\ UNCHANGED <<response, chunks>>
    /\ UNCHANGED <<loader, ddl, searcher, runs, surface, actions, results, completed, yielded, error, issued>>

\* The turn ends: its steps are appended to intermediate_steps, the
\* iteration is counted, and the loop condition is read.  At the cap the
\* executor stops by the "force" method: it returns, as its output, the
\* fixed "Agent stopped ..." text with the intermediate steps.
TurnComplete ==
    /\ state = "DISPATCHING_TOOLS"
    /\ GatherDone(results)
    /\ surface = "astream" => yielded = Len(actions)
    /\ intermediate_steps' =
           Extend(intermediate_steps, ConsumeNextStep(actions, results, completed))
    /\ iterations' = iterations + 1
    /\ IF ShouldContinue(iterations')
         THEN /\ state' = "AWAITING_MODEL"
              /\ UNCHANGED <<response, chunks>>
         ELSE /\ state' = "DONE"
              /\ response' = ReturnDict("stopped", intermediate_steps')
              /\ chunks' = IF surface = "astream"
                             THEN Append(chunks, OutputChunk) ELSE chunks
    /\ UNCHANGED <<loader, ddl, searcher, runs, surface, actions, results, completed, yielded, error, issued>>

Next ==
    \/ Start
    \/ \E names \in ActionSeqs : ModelActions(names)
    \/ ModelFinish
    \/ ModelParseError
    \/ \E i \in 1..MaxActions : \E out \in {"ok", "raised", "invalid"} : ToolComplete(i, out)
    \/ YieldStep
    \/ TurnComplete

Spec == Init /\ [][Next]_vars

\* The steps of the turn's tool calls that have finished so far.
FinishedSteps(acts, res) ==
    LET F[n \in 0..Len(acts)] ==
            IF n = 0 THEN <<>>
            ELSE IF res[n] \in {"ok", "invalid"}
                   THEN Append(F[n - 1],
                               [id |-> acts[n].id, tool |-> acts[n].tool,
                                observation |-> res[n]])
                   ELSE F[n - 1]
    IN  F[Len(acts)]

\* Mutant of Abandon: on its way out the executor records the steps of the
\* tool calls that have finished.
AbandonFlushing ==
    /\ surface = "astream"
    /\ state \in {"AWAITING_MODEL", "DISPATCHING_TOOLS"}
    /\ state' = "FAILED"
    /\ error' = "cancelled"
    /\ response' = OnException(surface)
    /\ intermediate_steps' =
           IF state = "DISPATCHING_TOOLS"
             THEN Extend(intermediate_steps, FinishedSteps(actions, results))
             ELSE intermediate_steps
    /\ UNCHANGED <<loader, ddl, searcher, runs, surface, iterations, actions, results, completed, yielded,
                   chunks, issued>>

\* The caller abandons the stream: the async for is left (the task is
\* cancelled, or the loop body raises) while the executor is suspended.  The
\* exception goes through the executor, which records nothing on its way
\* out; tool calls already handed to the thread pool run on.
Abandon ==
    /\ surface = "astream"
    /\ state \in {"AWAITING_MODEL", "DISPATCHING_TOOLS"}
    /\ state' = "FAILED"
    /\ error' = "cancelled"
    /\ response' = OnException(surface)
    /\ UNCHANGED <<loader, ddl, searcher, runs, surface, iterations, intermediate_steps, actions, results,
                   completed, yielded, chunks, issued>>

\* The two cells that stream a run of the one agent_executor.
Runs == {"astream_1", "astream_2"}

\* A run as astream enters it: its own list of steps, empty; no turn yet.
NewRun ==
    [state |-> "STARTED", iterations |-> 0, issued |-> 0, width |-> 0,
     done |-> {}, steps |-> <<>>, writers |-> {}]

\* Mutant of RecorderOf: the list of steps kept on the executor object that
\* the runs share.
RecorderOnExecutor(r) == "astream_1"

\* The list run r records its steps in: the one created for the call.
RecorderOf(r) == r

RunsInit ==
    /\ surface = "astream"
    /\ state = "STARTED"
    /\ iterations = 0
    /\ intermediate_steps = <<>>
    /\ actions = <<>>
    /\ results = <<>>
    /\ completed = <<>>
    /\ yielded = 0
    /\ chunks = <<>>
    /\ response = NoResponse
    /\ error = "none"
    /\ issued = 0
    /\ runs = [r \in Runs |-> NewRun]
    /\ loader = <<>>
    /\ ddl = <<>>
    /\ searcher = <<>>

RunStart(r) ==
    /\ runs[r].state = "STARTED"
    /\ runs' = [runs EXCEPT ![r].state = "AWAITING_MODEL"]
    /\ UNCHANGED <<runVars, loader, ddl, searcher>>

\* The model's response to run r carries n tool calls, all started together.
RunModelActions(r, n) ==
    /\ runs[r].state = "AWAITING_MODEL"
    /\ runs' = [runs EXCEPT ![r].state = "DISPATCHING_TOOLS",
                            ![r].issued = @ + n,
                            ![r].width = n,
                            ![r].done = {}]
    /\ UNCHANGED <<runVars, loader, ddl, searcher>>

RunModelFinish(r) ==
    /\ runs[r].state = "AWAITING_MODEL"
    /\ runs' = [runs EXCEPT ![r].state = "DONE"]
    /\ UNCHANGED <<runVars, loader, ddl, searcher>>

RunModelParseError(r) ==
    /\ runs[r].state = "AWAITING_MODEL"
    /\ runs' = [runs EXCEPT ![r].state = "FAILED"]
    /\ UNCHANGED <<runVars, loader, ddl, searcher>>

\* The i-th tool call of run r's turn returns its observation.
RunToolComplete(r, i) ==
    /\ runs[r].state = "DISPATCHING_TOOLS"
    /\ i \in (1..runs[r].width) \ runs[r].done
    /\ runs' = [runs EXCEPT ![r].done = @ \cup {i}]
    /\ UNCHANGED <<runVars, loader, ddl, searcher>>

\* A tool call of run r's turn raises: the run is over, its turn is lost.
RunToolRaise(r, i) ==
    /\ runs[r].state = "DISPATCHING_TOOLS"
    /\ i \in (1..runs[r].width) \ runs[r].done
    /\ runs' = [runs EXCEPT ![r].state = "FAILED"]
    /\ UNCHANGED <<runVars, loader, ddl, searcher>>

\* Run r's turn ends: its steps, in issuance order, extend the run's list.
RunTurnComplete(r) ==
    /\ runs[r].state = "DISPATCHING_TOOLS"
    /\ runs[r].done = 1..runs[r].width
    /\ LET w == runs[r].width
           new == [i \in 1..w |-> [run |-> r, id |-> runs[r].issued - w + i]]
           q == RecorderOf(r)
       IN  runs' = [runs EXCEPT
                       ![q].steps = Extend(@, new),
                       ![q].writers = @ \cup {r},
                       ![r].iterations = @ + 1,
                       ![r].state = IF ShouldContinue(runs[r].iterations + 1)
                                      THEN "AWAITING_MODEL" ELSE "DONE"]
    /\ UNCHANGED <<runVars, loader, ddl, searcher>>

RunsNext ==
    \E r \in Runs :
        \/ RunStart(r)
        \/ \E n \in 1..MaxActions : RunModelActions(r, n)
        \/ RunModelFinish(r)
        \/ RunModelParseError(r)
        \/ \E i \in 1..MaxActions : RunToolComplete(r, i)
        \/ \E i \in 1..MaxActions : RunToolRaise(r, i)
        \/ RunTurnComplete(r)

\* Runs of the one agent_executor, its tools and its model client that
\* overlap in time.
RunsSpec == RunsInit /\ [][RunsNext]_vars

\* The most rows the CSV file has.
MaxRows == 2001

\* The most times the loader cell is executed against the one database.
MaxExecutions == 2

\* upper = 1000, upper + 1000: the rows of one batch.
BatchSize == 1000

Min(a, b) == IF a <= b THEN a ELSE b

\* The variables of the agent's runs.
agentVars == <<runVars, runs>>

\* df[lower:upper]: the rows lower .. upper-1 of the frame's limit rows, the
\* slice's ends being cut back to the frame's length.
Slice(lower, upper, limit) ==
    LET lo == Min(lower, limit)
        hi == Min(upper, limit)
    IN  [lo |-> lo, hi |-> IF hi < lo THEN lo ELSE hi]

\* Mutant of NextLower: the next batch starts one row after the last one
\* ended.
NextLowerSkipsRow(lower, upper) == upper + 1

\* lower = upper
NextLower(lower, upper) == upper

\* Mutant of NextUpper: the upper end is not advanced.
NextUpperStuck(upper, limit) == Min(upper, limit)

\* upper = min(upper + 1000, limit)
NextUpper(upper, limit) == Min(upper + BatchSize, limit)

\* Mutant of CreateOutcomes: CREATE TABLE that passes over an existing table.
CreateOutcomesIfNotExists(exists) == {"ok", "error"}

\* conn.execute(text(create_table_sql)): the statement fails when the table
\* exists, and may fail for the connection's or the statement's sake.
CreateOutcomes(exists) == IF exists THEN {"error"} ELSE {"ok", "error"}

\* The cell is about to run for the first time on a frame of limit rows and
\* a database without the table.
LoaderInit ==
    /\ surface = "invoke"
    /\ state = "STARTED"
    /\ iterations = 0
    /\ intermediate_steps = <<>>
    /\ actions = <<>>
    /\ results = <<>>
    /\ completed = <<>>
    /\ yielded = 0
    /\ chunks = <<>>
    /\ response = NoResponse
    /\ error = "none"
    /\ issued = 0
    /\ runs = <<>>
    /\ ddl = <<>>
    /\ searcher = <<>>
    /\ \E limit \in 0..MaxRows :
           loader = [pc |-> "create", limit |-> limit, lower |-> 0, upper |-> 0,
                     exists |-> FALSE, table |-> <<>>, executions |-> 1,
                     inserted |-> 0, failed |-> "none"]

\* The CREATE TABLE statement is executed on a connection that is closed
\* without a commit: whether the new table outlives the connection is the
\* driver's autocommit (persists).  On success the loop's variables are set.
CreateTable(out, persists) ==
    /\ loader # <<>>
    /\ loader.pc = "create"
    /\ out \in CreateOutcomes(loader.exists)
    /\ loader' = IF out = "ok"
                   THEN [loader EXCEPT !.pc = "loop",
                                       !.exists = persists,
                                       !.lower = 0,
                                       !.upper = BatchSize]
                   ELSE [loader EXCEPT !.pc = "except", !.failed = "create"]
    /\ UNCHANGED <<agentVars, ddl, searcher>>

\* Mutant of InsertBatch: the insertion's exception is caught inside the
\* loop, which goes on with the next batch.
InsertBatchCaughtInLoop(out) ==
    /\ loader # <<>>
    /\ loader.pc = "loop"
    /\ loader.lower < loader.limit
    /\ out \in {"ok", "error"}
    /\ loader' =
           [loader EXCEPT
               !.table = IF out = "ok"
                           THEN Append(@, Slice(loader.lower, loader.upper,
                                                loader.limit))
                           ELSE @,
               !.exists = IF out = "ok" THEN TRUE ELSE @,
               !.inserted = IF out = "ok" THEN @ + 1 ELSE @,
               !.failed = IF out = "ok" THEN @ ELSE "insert",
               !.lower = NextLower(loader.lower, loader.upper),
               !.upper = NextUpper(loader.upper, loader.limit)]
    /\ UNCHANGED <<agentVars, ddl, searcher>>

\* One iteration of the while loop: df[lower:upper].to_sql(..., if_exists=
\* 'append') inserts the slice in one transaction, creating the table when
\* it is missing, and the bounds are advanced; an exception leaves the loop
\* for the except clause.
InsertBatch(out) ==
    /\ loader # <<>>
    /\ loader.pc = "loop"
    /\ loader.lower < loader.limit
    /\ out \in {"ok", "error"}
    /\ loader' =
           IF out = "ok"
             THEN [loader EXCEPT
                      !.table = Append(@, Slice(loader.lower, loader.upper,
                                                loader.limit)),
                      !.exists = TRUE,
                      !.inserted = @ + 1,
                      !.lower = NextLower(loader.lower, loader.upper),
                      !.upper = NextUpper(loader.upper, loader.limit)]
             ELSE [loader EXCEPT !.pc = "except", !.failed = "insert"]
    /\ UNCHANGED <<agentVars, ddl, searcher>>

\* while lower < limit is false: the cell is done.
LoopExit ==
    /\ loader # <<>>
    /\ loader.pc = "loop"
    /\ ~(loader.lower < loader.limit)
    /\ loader' = [loader EXCEPT !.pc = "done"]
    /\ UNCHANGED <<agentVars, ddl, searcher>>

\* The cell is executed again, on the same file and the same database.
RunCellAgain ==
    /\ loader # <<>>
    /\ loader.pc \in {"done", "except"}
    /\ loader.executions < MaxExecutions
    /\ loader' = [loader EXCEPT !.pc = "create",
                                !.executions = @ + 1,
                                !.inserted = 0,
                                !.failed = "none"]
    /\ UNCHANGED <<agentVars, ddl, searcher>>

LoaderNext ==
    \/ \E out \in {"ok", "error"} : \E persists \in BOOLEAN : CreateTable(out, persists)
    \/ \E out \in {"ok", "error"} : InsertBatch(out)
    \/ LoopExit
    \/ RunCellAgain

\* The loader cell of 08-SQLDB_QA, executed up to MaxExecutions times.
LoaderSpec == LoaderInit /\ [][LoaderNext]_vars

\* The most columns the CSV file has.
MaxColumns == 3

\* The dtypes pd.read_csv gives a column (object, int64, float64, bool, and
\* uint64 for integers beyond int64), and datetime64[ns], which the
\* statement's construction provides for.
Dtypes == {"object", "int64", "float64", "bool", "datetime64[ns]", "uint64"}

\* The branch of the if/elif chain a dtype takes: the SQL type it appends,
\* or "none" when no branch matches (the chain has no else).
SqlType(dtype) ==
    CASE dtype = "object" -> "VARCHAR(MAX)"
      [] dtype = "int64" -> "INT"
      [] dtype = "float64" -> "FLOAT"
      [] dtype = "bool" -> "BIT"
      [] dtype = "datetime64[ns]" -> "DATETIME"
      [] OTHER -> "none"

\* create_table_sql[:-2] + ")": the last two characters go, which are the
\* ", " after the last declaration, or the " (" of the statement's head when
\* no declaration was appended.
CloseStatement(pieces) ==
    [head |-> IF pieces = <<>> THEN "CREATE TABLE covidtracking"
                               ELSE "CREATE TABLE covidtracking (",
     columns |-> [k \in 1..Len(pieces) |->
                     [name |-> pieces[k].name, type |-> pieces[k].type]],
     tail |-> ")"]

\* The frame is read: its columns, numbered in the frame's order, each with
\* its dtype; create_table_sql is the statement's head.
DdlInit ==
    /\ surface = "invoke"
    /\ state = "STARTED"
    /\ iterations = 0
    /\ intermediate_steps = <<>>
    /\ actions = <<>>
    /\ results = <<>>
    /\ completed = <<>>
    /\ yielded = 0
    /\ chunks = <<>>
    /\ response = NoResponse
    /\ error = "none"
    /\ issued = 0
    /\ runs = <<>>
    /\ loader = <<>>
    /\ searcher = <<>>
    /\ \E n \in 1..MaxColumns : \E dtypes \in [1..n -> Dtypes] :
           ddl = [pc |-> "loop", dtypes |-> dtypes, next |-> 1,
                  pieces |-> <<>>, statement |-> <<>>]

\* One iteration of for name, dtype in column_types.items(): the branch
\* that matches the dtype appends "<name> <type>, "; no branch, nothing.
AddColumn ==
    /\ ddl # <<>>
    /\ ddl.pc = "loop"
    /\ ddl.next <= Len(ddl.dtypes)
    /\ LET type == SqlType(ddl.dtypes[ddl.next])
       IN  ddl' = [ddl EXCEPT
                      !.next = @ + 1,
                      !.pieces = IF type = "none" THEN @
                                 ELSE Append(@, [name |-> ddl.next,
                                                 type |-> type,
                                                 sep |-> ", "])]
    /\ UNCHANGED <<agentVars, loader, searcher>>

\* After the loop the statement is closed.
CloseCreateTable ==
    /\ ddl # <<>>
    /\ ddl.pc = "loop"
    /\ ddl.next > Len(ddl.dtypes)
    /\ ddl' = [ddl EXCEPT !.pc = "done",
                          !.statement = CloseStatement(ddl.pieces)]
    /\ UNCHANGED <<agentVars, loader, searcher>>

DdlNext ==
    \/ AddColumn
    \/ CloseCreateTable

\* The construction of the CREATE TABLE statement from the frame's dtypes.
DdlSpec == DdlInit /\ [][DdlNext]_vars

\* The largest k a Searcher is built with.
MaxK == 3

\* The most results the search service has for a query.
MaxHits == 4

\* k: int = 5, the k of a Searcher built without one.
DefaultK == 5

\* The queries the model sends the Searcher.
Queries == {"q1", "q2"}

\* A call f(*args) binds the positional arguments to the parameters of
\* BingSearchAPIWrapper.results(self, query, num_results), in order.
BindPositional(args) == [query |-> args[1], num_results |-> args[2]]

\* _run: bing = BingSearchAPIWrapper(k=self.k);
\* bing.results(query, num_results=self.k).
RunCall(query, k) ==
    [wrapper_k |-> k, query |-> query, num_results |-> k]

\* Mutant of ArunCall: the tool's own k is left out, and the class's default
\* is what the call asks for.
ArunCallDefaultK(query, k) ==
    [wrapper_k |-> DefaultK] @@ BindPositional(<<query, DefaultK>>)

\* _arun: bing = BingSearchAPIWrapper(k=self.k);
\* loop.run_in_executor(ThreadPoolExecutor(), bing.results, query, self.k).
ArunCall(query, k) ==
    [wrapper_k |-> k] @@ BindPositional(<<query, k>>)

\* What bing.results gives for a call when the service has hits results for
\* the query: the first num_results of them; when the request fails, the
\* exception.
Results(call, hits, fails) ==
    IF fails THEN [kind |-> "raised", items |-> <<>>]
    ELSE [kind |-> "returned",
          items |-> [i \in 1..Min(call.num_results, hits) |-> <<call.query, i>>]]

NoCall == [kind |-> "none", items |-> <<>>]

\* A Searcher of some k is about to be called with a query, by both entry
\* points, against a service in one state.
SearcherInit ==
    /\ surface = "invoke"
    /\ state = "STARTED"
    /\ iterations = 0
    /\ intermediate_steps = <<>>
    /\ actions = <<>>
    /\ results = <<>>
    /\ completed = <<>>
    /\ yielded = 0
    /\ chunks = <<>>
    /\ response = NoResponse
    /\ error = "none"
    /\ issued = 0
    /\ runs = <<>>
    /\ loader = <<>>
    /\ ddl = <<>>
    /\ \E query \in Queries : \E k \in 1..MaxK : \E hits \in 0..MaxHits :
       \E fails \in BOOLEAN :
           searcher = [query |-> query, k |-> k, hits |-> hits, fails |-> fails,
                       run_call |-> <<>>, run_result |-> NoCall,
                       arun_pc |-> "idle", arun_call |-> <<>>,
                       arun_result |-> NoCall]

\* _run is called: the search is made on the caller's thread and its result
\* (or exception) is the call's.
Run ==
    /\ searcher # <<>>
    /\ searcher.run_result = NoCall
    /\ LET call == RunCall(searcher.query, searcher.k)
       IN  searcher' = [searcher EXCEPT
                           !.run_call = call,
                           !.run_result = Results(call, searcher.hits,
                                                  searcher.fails)]
    /\ UNCHANGED <<agentVars, loader, ddl>>

\* _arun is called: the search call is handed to a thread of a new pool and
\* the coroutine awaits it.
ArunSubmit ==
    /\ searcher # <<>>
    /\ searcher.arun_pc = "idle"
    /\ searcher' = [searcher EXCEPT
                       !.arun_pc = "awaiting",
                       !.arun_call = ArunCall(searcher.query, searcher.k)]
    /\ UNCHANGED <<agentVars, loader, ddl>>

\* The thread's call ends: the coroutine resumes with its result, or with
\* the exception it raised.
ArunResume ==
    /\ searcher # <<>>
    /\ searcher.arun_pc = "awaiting"
    /\ searcher' = [searcher EXCEPT
                       !.arun_pc = "done",
                       !.arun_result = Results(searcher.arun_call,
                                               searcher.hits, searcher.fails)]
    /\ UNCHANGED <<agentVars, loader, ddl>>

SearcherNext ==
    \/ Run
    \/ ArunSubmit
    \/ ArunResume

\* The Searcher tool called through _run and through _arun.
SearcherSpec == SearcherInit /\ [][SearcherNext]_vars

\* The keys of the dict a chunk is: its own key and "messages"; the last
\* chunk has "output" and "intermediate_steps".
Keys(chunk) ==
    {chunk.kind, "messages"} \cup
        (IF chunk.kind = "output" THEN {"intermediate_steps"} ELSE {})

\* The branch the body of the consumer loop takes on a chunk.
ConsumerBranch(chunk) ==
    IF "actions" \in Keys(chunk) THEN "print"
    ELSE IF "steps" \in Keys(chunk) THEN "continue"
    ELSE IF "output" \in Keys(chunk) THEN "continue"
    ELSE "ValueError"

NextOrAbandon ==
    \/ Next
    \/ Abandon

\* The runs of the agent, with a caller that may abandon the stream.
CancelSpec == Init /\ [][NextOrAbandon]_vars

\* The model client answers and every started tool call returns or raises.
FairSpec == Spec /\ WF_vars(Next)

\* The steps the executor takes by itself and the model client's answers.
ExecutorStep ==
    \/ Start
    \/ \E names \in ActionSeqs : ModelActions(names)
    \/ ModelFinish
    \/ ModelParseError
    \/ YieldStep
    \/ TurnComplete

\* requests.get(url, headers=HEADERS) is given no timeout, and neither is
\* the request bing.results sends: the executor and the model client keep
\* going, but nothing makes a started tool call end.
NoTimeoutSpec == Spec /\ WF_vars(ExecutorStep)

(***************************************************************************)
(* Properties of the agent run.                                            *)
(***************************************************************************)

\* The steps recorded for the Action with this id.
ObservationsOf(steps, id) == {k \in 1..Len(steps) : steps[k].id = id}

\* Some recorded step is the "invalid tool" observation of an unknown name.
HasInvalidStep == \E k \in 1..Len(intermediate_steps) :
                     intermediate_steps[k].observation = "invalid"

\* C1: in every run that ends with a returned result (state DONE), every
\* Action issued during the run has exactly one step, both in the executor's
\* intermediate_steps and in the step trail handed to the caller.
C1_EveryActionOneObservation ==
    state = "DONE" =>
        \A id \in 1..issued :
            /\ Cardinality(ObservationsOf(intermediate_steps, id)) = 1
            /\ Cardinality(ObservationsOf(response.steps, id)) = 1

\* A run that ended with the model's answer after a turn that held an
\* unknown tool name beside a registered one.
C1_Witness ==
    /\ state = "DONE"
    /\ response.output = "answer"
    /\ issued >= 2
    /\ HasInvalidStep

\* C2: the steps are recorded in the order the Actions were issued, whatever
\* the order in which the concurrent tool calls of a turn completed.
C2_StepsInIssuanceOrder ==
    \A k \in 1..Len(intermediate_steps) : intermediate_steps[k].id = k

\* Under astream, a turn whose second Action completed before its first has
\* been recorded.
C2_Witness ==
    /\ surface = "astream"
    /\ state = "AWAITING_MODEL"
    /\ Len(completed) = 2
    /\ completed[1] > completed[2]
    /\ Len(intermediate_steps) = 2

\* C3: the model is not queried again while a tool call of the current turn
\* is in flight: whenever the loop awaits the model, no result is pending
\* and every Action issued so far has its observation recorded.
C3_NoModelCallWhileInFlight ==
    state = "AWAITING_MODEL" =>
        /\ \A i \in DOMAIN results : results[i] # "pending"
        /\ \A id \in 1..issued :
               \E k \in 1..Len(intermediate_steps) :
                   /\ intermediate_steps[k].id = id
                   /\ intermediate_steps[k].observation \in {"ok", "invalid"}

\* The loop is back at the model after a turn of MaxActions concurrent calls.
C3_Witness ==
    /\ surface = "astream"
    /\ state = "AWAITING_MODEL"
    /\ Len(actions) = MaxActions
    /\ iterations = 1

\* C4 (as the spec states it): a tool that raises does not abort the run;
\* the run stays in the loop (the turn goes on and the model is asked again).
C4_ToolErrorBecomesObservation ==
    (\E i \in DOMAIN results : results[i] = "raised") =>
        /\ state \in {"DISPATCHING_TOOLS", "AWAITING_MODEL"}
        /\ error = "none"

C6_ActionBeforeObservation ==
    \A j \in 1..Len(chunks) :
        chunks[j].kind = "steps" =>
            \E i \in 1..(j - 1) :
                chunks[i].kind = "actions" /\ chunks[i].id = chunks[j].id

\* The consumer has received the steps chunk of the second Action of a turn.
C6_Witness ==
    \E j \in 1..Len(chunks) : chunks[j].kind = "steps" /\ chunks[j].id = 2

\* C7 (as the spec states it): a finished run leaves the caller with the
\* final answer or with an outcome that carries the steps recorded so far.
C7_AnswerOrTrail ==
    state \in Terminal =>
        \/ response.output = "answer"
        \/ response.steps = intermediate_steps

C9_FailedOnlyByCapOrProtocol ==
    state = "FAILED" => error \in {"parse_error", "iteration_limit"}

IsPrefix(s, t) == Len(s) <= Len(t) /\ SubSeq(t, 1, Len(s)) = s

C12_AppendOnly ==
    [][IsPrefix(intermediate_steps, intermediate_steps')]_vars

\* The sequence has been extended twice.
C12_Witness ==
    /\ iterations = 2
    /\ Len(intermediate_steps) >= 2

\* The observation a reader can see for the Action with this id: the one
\* recorded in intermediate_steps, or the result of the current turn.
VisibleObservation(id) ==
    IF \E k \in 1..Len(intermediate_steps) : intermediate_steps[k].id = id
      THEN intermediate_steps[
               CHOOSE k \in 1..Len(intermediate_steps) :
                   intermediate_steps[k].id = id].observation
      ELSE IF \E i \in DOMAIN actions : actions[i].id = id
             THEN results[IndexOf(actions, id)]
             ELSE "none"

\* C13: no reader sees a step without its observation: the steps of
\* intermediate_steps, of the returned trail and of the "steps" chunks all
\* hold an observation; only "actions" chunks show an Action without one.
C13_NoPartialStep ==
    /\ \A k \in 1..Len(intermediate_steps) :
           intermediate_steps[k].observation \in {"ok", "invalid"}
    /\ \A k \in 1..Len(response.steps) :
           response.steps[k].observation \in {"ok", "invalid"}
    /\ \A j \in 1..Len(chunks) :
           chunks[j].kind = "steps" =>
               VisibleObservation(chunks[j].id) \in {"ok", "invalid"}

\* The consumer holds the "steps" chunk of a turn that is not recorded yet,
\* and the "actions" chunk of an Action that has no observation so far.
C13_Witness ==
    /\ state = "DISPATCHING_TOOLS"
    /\ yielded = 1
    /\ Len(actions) = 2
    /\ chunks[Len(chunks)].kind = "steps"

\* C14: when the caller abandons the stream while a turn's tool calls are in
\* flight, none of that turn's steps is in intermediate_steps, and nothing is
\* appended at the abandonment or after it, whatever the calls in flight do.
C14_AbandonDiscardsTurn ==
    [][/\ error' = "cancelled" => intermediate_steps' = intermediate_steps
       /\ (state = "DISPATCHING_TOOLS" /\ error' = "cancelled") =>
              \A i \in DOMAIN actions : \A k \in 1..Len(intermediate_steps') :
                  intermediate_steps'[k].id # actions[i].id]_vars

\* The stream was abandoned in the second turn, with one tool call finished
\* and one still in flight; the first turn's steps are recorded.
C14_Witness ==
    /\ error = "cancelled"
    /\ Len(intermediate_steps) >= 1
    /\ \E i \in DOMAIN results : results[i] = "pending"
    /\ \E i \in DOMAIN results : results[i] = "ok"

\* C15: a tool call that outlasts its per-call timeout is ended with an error
\* observation and the run goes on; at the least, every dispatch of tool
\* calls comes to an end.
C15_TimeoutBecomesObservation ==
    (state = "DISPATCHING_TOOLS") ~> (state # "DISPATCHING_TOOLS")

\* The ids of the steps the stream has reported, in the order of its
\* "steps" chunks.
StepsReported ==
    LET cs == SelectSeq(chunks, LAMBDA c : c.kind = "steps")
    IN  [k \in 1..Len(cs) |-> cs[k].id]

C17_EveryChunkRecognised ==
    \A j \in 1..Len(chunks) :
        /\ Cardinality(Keys(chunks[j]) \cap {"actions", "steps", "output"}) = 1
        /\ ConsumerBranch(chunks[j]) # "ValueError"

\* The consumer has received chunks of the three kinds.
C17_Witness ==
    /\ \E j \in 1..Len(chunks) : ConsumerBranch(chunks[j]) = "print"
    /\ \E j \in 1..Len(chunks) : "steps" \in Keys(chunks[j])
    /\ \E j \in 1..Len(chunks) : "output" \in Keys(chunks[j])

\* C18: with several runs of the one executor under way, each run's list of
\* steps holds only steps of Actions issued in that run, all of them for the
\* turns it completed, in issuance order, and no list is written by a run
\* other than its own.
C18_RecorderPerRun ==
    \A r \in Runs :
        /\ \A k \in 1..Len(runs[r].steps) :
               runs[r].steps[k] = [run |-> r, id |-> k]
        /\ runs[r].state \in {"STARTED", "AWAITING_MODEL", "DONE"} =>
               Len(runs[r].steps) = runs[r].issued
        /\ runs[r].writers \subseteq {r}

\* Both runs are in the middle of a turn, each with steps recorded already.
C18_Witness ==
    \A r \in Runs :
        /\ runs[r].state = "DISPATCHING_TOOLS"
        /\ runs[r].steps # <<>>

\* C19: under astream the Searcher's search call does not hold up the event
\* loop: while it is in flight, every other tool call of the turn that is
\* still in flight can finish.
C19_SearchDoesNotBlock ==
    \A i, j \in DOMAIN results :
        ( /\ surface = "astream"
          /\ state = "DISPATCHING_TOOLS"
          /\ i # j
          /\ actions[i].tool = "Searcher"
          /\ results[i] = "pending"
          /\ results[j] = "pending" )
        => ENABLED (\E out \in {"ok", "raised", "invalid"} : ToolComplete(j, out))

\* The search issued first is still in flight and the tool call issued after
\* it has finished.
C19_Witness ==
    /\ surface = "astream"
    /\ state = "DISPATCHING_TOOLS"
    /\ Len(actions) >= 2
    /\ actions[1].tool = "Searcher"
    /\ results[1] = "pending"
    /\ results[2] = "ok"

\* The transitions the specification lists for the Agent Loop, with a
\* transition to FAILED from any state that is not terminal.
ClaimedTransitions ==
    {<<"STARTED", "AWAITING_MODEL">>,
     <<"AWAITING_MODEL", "DISPATCHING_TOOLS">>,
     <<"AWAITING_MODEL", "DONE">>,
     <<"DISPATCHING_TOOLS", "AWAITING_MODEL">>,
     <<"STARTED", "FAILED">>,
     <<"AWAITING_MODEL", "FAILED">>,
     <<"DISPATCHING_TOOLS", "FAILED">>}

C21_TerminalAbsorbing ==
    [][(state \in Terminal) =>
           /\ state' = state
           /\ intermediate_steps' = intermediate_steps
           /\ response' = response
           /\ error' = error
           /\ chunks' = chunks
           /\ iterations' = iterations
           /\ issued' = issued
           /\ actions' = actions]_vars

\* A run that failed on a tool's exception, after which the other tool call
\* of the turn finished.
C21_Witness ==
    /\ state = "FAILED"
    /\ error = "tool_error"
    /\ Len(results) = 2
    /\ completed # <<>>
    /\ results[IndexOf(actions, completed[1])] = "raised"
    /\ \A i \in DOMAIN results : results[i] # "pending"

\* C22: a stream that ended successfully has delivered exactly one "output"
\* chunk, and that chunk is the last one; a stream that has not, has
\* delivered none.
C22_OneFinalAnswerLast ==
    LET outs == {j \in 1..Len(chunks) : chunks[j].kind = "output"}
    IN  IF surface = "astream" /\ state = "DONE"
          THEN outs = {Len(chunks)} /\ chunks # <<>>
          ELSE outs = {}

\* A stream of action, step and final chunks that ended with the answer.
C22_Witness ==
    /\ surface = "astream"
    /\ state = "DONE"
    /\ response.output = "answer"
    /\ Len(chunks) >= 3
    /\ chunks[Len(chunks) - 1].kind = "steps"

\* C23: tool names are unique in the registry: the Bing agent's list holds
\* two tools under the two names Searcher and WebFetcher, and every Action
\* whose tool name is registered resolves to exactly one tool of the list.
C23_ToolNamesUnique ==
    /\ Len(ToolList) = 2
    /\ tools = {"Searcher", "WebFetcher"}
    /\ \A a, b \in DOMAIN ToolList : ToolList[a].name = ToolList[b].name => a = b
    /\ \A i \in DOMAIN actions :
           actions[i].tool \in tools =>
               Cardinality({k \in DOMAIN ToolList :
                                ToolList[k].name = actions[i].tool}) = 1

\* A turn whose two Actions name the two registered tools, both resolved
\* and run.
C23_Witness ==
    /\ Len(actions) = 2
    /\ {actions[i].tool : i \in DOMAIN actions} = {"Searcher", "WebFetcher"}
    /\ \A i \in DOMAIN results : results[i] = "ok"

\* The row the table's slices reach up to, when they follow one another
\* from row 0.
CoveredUpTo(t) == IF t = <<>> THEN 0 ELSE t[Len(t)].hi

\* The slices of t are not empty, hold BatchSize rows at most, start at row
\* 0 and each starts where the one before it ended.
Consecutive(t) ==
    \A i \in DOMAIN t :
        /\ t[i].lo < t[i].hi
        /\ t[i].hi - t[i].lo <= BatchSize
        /\ t[i].lo = IF i = 1 THEN 0 ELSE t[i - 1].hi

\* C24: the batch loop inserts every row exactly once: the slices inserted
\* so far are disjoint and consecutive, of at most 1000 rows each, and cover
\* the rows below lower; when the loop is left they cover rows 0 .. limit-1.
C24_EveryRowExactlyOnce ==
    loader.pc \in {"loop", "done"} =>
        /\ Consecutive(loader.table)
        /\ CoveredUpTo(loader.table) = Min(loader.lower, loader.limit)
        /\ loader.pc = "done" => CoveredUpTo(loader.table) = loader.limit

\* The loop is done on a frame whose last batch is shorter than the others.
C24_Witness ==
    /\ loader.pc = "done"
    /\ Len(loader.table) = 3
    /\ loader.table[3].hi - loader.table[3].lo < BatchSize
    /\ loader.table[3].hi = loader.limit

\* The rows the loop has still to insert.
LoopVariant(l) == IF l.lower < l.limit THEN l.limit - l.lower ELSE 0

\* C25: the batch loop terminates: each iteration moves lower up, so the
\* number of rows still to insert goes down, and when none is left (limit 0
\* included) the next step leaves the loop.
C25_LoopTerminates ==
    [][(loader.pc = "loop") =>
           /\ loader'.pc = "loop" =>
                  /\ loader'.lower > loader.lower
                  /\ LoopVariant(loader') < LoopVariant(loader)
           /\ LoopVariant(loader) = 0 => loader'.pc = "done"
           /\ loader'.pc \in {"loop", "done", "except"}
           /\ loader'.limit = loader.limit]_vars

\* The loop was left after two full batches on a frame of exactly two
\* batches' rows.
C25_Witness ==
    /\ loader.pc = "done"
    /\ loader.limit = 2 * BatchSize
    /\ loader.lower = loader.limit
    /\ Len(loader.table) = 2

\* The first k batches of a frame of limit rows.
FirstBatches(k, limit) ==
    [i \in 1..k |-> [lo |-> (i - 1) * BatchSize, hi |-> Min(i * BatchSize, limit)]]

\* C26: a failure of the loader is caught and ends the cell's work: when the
\* table creation fails the execution inserts no row; when the insertion of
\* batch k fails the table holds exactly the batches 0 .. k-1 and the loop
\* has stopped at batch k.
C26_FailureSkipsLaterWork ==
    /\ loader.failed # "none" => loader.pc = "except"
    /\ loader.failed = "create" => loader.inserted = 0
    /\ loader.failed = "insert" =>
           /\ loader.table = FirstBatches(loader.inserted, loader.limit)
           /\ loader.lower = loader.inserted * BatchSize
           /\ loader.lower < loader.limit

\* The insertion of the third batch failed after two batches went in.
C26_Witness ==
    /\ loader.pc = "except"
    /\ loader.failed = "insert"
    /\ loader.inserted = 2

\* C27: however often the cell is executed against the database, the table
\* holds each row at most once: its slices are disjoint and all come from
\* one execution, an execution that finds the table inserting nothing.
C27_RowsAtMostOnce ==
    [][/\ \A i, j \in DOMAIN loader'.table :
              i < j => loader'.table[i].hi <= loader'.table[j].lo
       /\ loader'.inserted \in {0, Len(loader'.table)}
       /\ (loader.pc = "create" /\ loader.exists) =>
              /\ loader'.pc = "except"
              /\ loader'.table = loader.table
       /\ loader.table # <<>> => loader.exists]_vars

\* The cell was executed again on the loaded table and its CREATE TABLE
\* failed.
C27_Witness ==
    /\ loader.executions = 2
    /\ loader.pc = "except"
    /\ loader.failed = "create"
    /\ loader.inserted = 0
    /\ CoveredUpTo(loader.table) = loader.limit
    /\ loader.limit > BatchSize

\* C28: the CREATE TABLE statement declares exactly one column for every
\* column of the frame, in the frame's order, whatever the columns' dtypes.
C28_OneColumnPerFrameColumn ==
    ddl.pc = "done" =>
        /\ Len(ddl.statement.columns) = Len(ddl.dtypes)
        /\ \A k \in 1..Len(ddl.statement.columns) :
               ddl.statement.columns[k].name = k

\* C29: the Searcher's two entry points are equivalent: for every query and
\* every k, _arun makes the search call _run makes (same wrapper, same
\* query, same number of results) and ends with the same result.
C29_RunArunEquivalent ==
    /\ searcher.arun_pc # "idle" =>
           searcher.arun_call = RunCall(searcher.query, searcher.k)
    /\ (searcher.arun_pc = "done" /\ searcher.run_result # NoCall) =>
           /\ searcher.arun_call = searcher.run_call
           /\ searcher.arun_result = searcher.run_result

\* Both entry points returned, for a query the service has more results for
\* than the k asked.
C29_Witness ==
    /\ searcher.arun_pc = "done"
    /\ searcher.run_result.kind = "returned"
    /\ searcher.hits > searcher.k
    /\ Len(searcher.arun_result.items) = searcher.k

====
